---- MODULE Spec2Model ----
(***************************************************************************)
(* A model of goreader's Reader (src/reader.go): the position tracker, the *)
(* raw rune source with its one-level push-back, the three transformers,   *)
(* and the Next / Consume / State / Rollback / Commit operations over the  *)
(* checkpointable lookahead buffer.                                        *)
(*                                                                         *)
(* Runes are code points (integers).  The raw source is a finite sequence  *)
(* of runes followed by a terminal condition: io.EOF (strings.NewReader)   *)
(* or a read error returned on every further read (the tests'              *)
(* errorReader).                                                           *)
(***************************************************************************)
EXTENDS Integers, Sequences, FiniteSets, TLC

\* ------------------------------------------------------------------ runes
LF == 10
CR == 13
Backslash == 92
LowerU == 117
RuneA == 97
RuneB == 98
RuneX == 88
LowerX == 120
LowerY == 121
Digit0 == 48
Digit5 == 53
Digit8 == 56

\* ----------------------------------------------------------------- bounds
\* Longest raw source of the general specification.
MaxLen == 3
\* Row size of the lookahead buffer (Builder.WithSize's rowSize).
RowSize == 2
\* Raw runes before and after the escape in the unicode-escape sources.
MaxPad == 1
\* Longest raw source of the newline specification.
MaxLine == 4
\* Longest raw source of the rune-escape specification.
MaxEsc == 4
\* Longest free-form raw source of the pipeline specification.
MaxMix == 3

\* ------------------------------------------------------------ value types
startPosition == [Row |-> 1, Col |-> 1]

ZeroPosition == [Row |-> 0, Col |-> 0]

\* The zero value of Char, which Next returns beside an error.
ZeroChar == [Rune |-> 0, Pos |-> ZeroPosition, Escaped |-> FALSE]

NewChar(ru, pos) == [Rune |-> ru, Pos |-> pos, Escaped |-> FALSE]

\* Errors.  kind: "nil" (no error), "EOF" (the unwrapped io.EOF), "source"
\* (the source's own read error, unwrapped), "bufio" (ErrInvalidUnreadRune),
\* "positional" (goerrors.NewPositionalError around msg), "zero-state",
\* "illegal-state" (gobuffer's rollback errors), "empty" (unexpected empty buffer).
MkErr(kind, pos, msg, lit) == [kind |-> kind, pos |-> pos, msg |-> msg, lit |-> lit]

Nil == MkErr("nil", ZeroPosition, "", <<>>)

EOF == MkErr("EOF", ZeroPosition, "EOF", <<>>)

SourceError == MkErr("source", ZeroPosition, "reader test error", <<>>)

ErrInvalidUnreadRune == MkErr("bufio", ZeroPosition, "invalid use of UnreadRune", <<>>)

ZeroStateError == MkErr("zero-state", ZeroPosition, "zero state", <<>>)

IllegalStateError == MkErr("illegal-state", ZeroPosition, "illegal state", <<>>)

EmptyBufferError == MkErr("empty", ZeroPosition, "unexpected empty buffer", <<>>)

NewPositionalError(pos, msg, lit) == MkErr("positional", pos, msg, lit)

IsEOF(err) == err.kind = "EOF"

\* -------------------------------------------------------------- variables
VARIABLES
    src,           \* the raw runes of the source
    srcEnd,        \* what a read past the last rune returns: EOF or SourceError
    transformers,  \* Reader.transformers, in installation order
    escapes,       \* the runeEscape mapping (a function on its keys)
    reader,        \* Reader.reader: [r: runes read, lastRuneSize: -1 or 1]
    pos,           \* Reader.pos, the position of the next rune
    buffer,        \* Reader.buffer
    saved,         \* the State value the caller holds
    savedAt,       \* the read cursor at which it was taken (-1: never taken)
    last,          \* the most recent call and what it returned
    produced,      \* every Char bufferChar has written, with the raw runes it came from
    delivered,     \* the Chars consumed so far (kept until a Rollback succeeds)
    hist,          \* per read cursor still reachable, the latest outcome Next returned there
                   \* since the held State was taken
    stale,         \* read cursors whose hist entry predates the latest successful Rollback
    rolledBack,    \* a Rollback has succeeded
    discarded      \* how many buffered elements the Commits have dropped

vars == <<src, srcEnd, transformers, escapes, reader, pos, buffer, saved, savedAt, last,
          produced, delivered, hist, stale,
          rolledBack, discarded>>

config == <<src, srcEnd, transformers, escapes>>

\* ------------------------------------------------- source and position
\* The operators below thread a record st through a call of Next:
\*   st.r             raw runes read from the source so far (bufio's read index)
\*   st.lastRuneSize  bufio's lastRuneSize: 1 after a successful ReadRune, else -1
\*   st.pos           Reader.pos
\*   st.ev            the source and position events of the call, in order

Event(st, e) == [st EXCEPT !.ev = Append(@, e)]

\* Reader.step: returns the position before the move, then moves the column.
\* The trace records a move that takes the clamping branch ("clamp") and one
\* that ends on column zero without it ("column0").
step(st, i) ==
    LET col == st.pos.Col + i
        moved == IF col < 0
                 THEN [Row |-> IF st.pos.Row > 0 THEN st.pos.Row - 1 ELSE st.pos.Row,
                       Col |-> 0]
                 ELSE [Row |-> st.pos.Row, Col |-> col]
        st1 == [st EXCEPT !.pos = moved]
    IN [st |-> IF col < 0 THEN Event(st1, "clamp")
               ELSE IF col = 0 THEN Event(st1, "column0")
               ELSE st1,
        pos |-> st.pos]

\* newline that goes back to the first column of the same row.
newlineKeepsRow(st) == [st EXCEPT !.pos = [Row |-> st.pos.Row, Col |-> startPosition.Col]]

\* Reader.newline
newline(st) == [st EXCEPT !.pos = [Row |-> st.pos.Row + 1, Col |-> startPosition.Col]]

\* bufio.Reader.ReadRune over the source: the next rune, or the source's
\* terminal condition (every time); a failed read leaves nothing to unread.
ReadRune(st) ==
    IF st.r < Len(src)
    THEN [st |-> Event([st EXCEPT !.r = @ + 1, !.lastRuneSize = 1], "read"),
          ru |-> src[st.r + 1], err |-> Nil]
    ELSE [st |-> Event([st EXCEPT !.lastRuneSize = -1], "readfail"),
          ru |-> 0, err |-> srcEnd]

\* bufio.Reader.UnreadRune: only the rune of the latest successful ReadRune.
UnreadRune(st) ==
    IF st.lastRuneSize < 0
    THEN [st |-> Event(st, "unreadfail"), err |-> ErrInvalidUnreadRune]
    ELSE [st |-> Event([st EXCEPT !.r = @ - st.lastRuneSize, !.lastRuneSize = -1], "unread"),
          err |-> Nil]

\* readRune that never moves the position.
readRuneKeepsPosition(st) ==
    LET rr == ReadRune(st)
    IN [st |-> rr.st, ru |-> rr.ru, pos |-> rr.st.pos, err |-> rr.err]

\* readRune that moves the position on a failed read too.
readRuneStepsOnFail(st) ==
    LET rr == ReadRune(st)
        sp == step(rr.st, 1)
    IN [st |-> sp.st, ru |-> rr.ru, pos |-> sp.pos, err |-> rr.err]

\* Reader.readRune
readRune(st) ==
    LET rr == ReadRune(st)
    IN IF rr.err # Nil
       THEN [st |-> rr.st, ru |-> rr.ru, pos |-> rr.st.pos, err |-> rr.err]
       ELSE LET sp == step(rr.st, 1)
            IN [st |-> sp.st, ru |-> rr.ru, pos |-> sp.pos, err |-> Nil]

\* unreadRune that leaves the position where the read put it.
unreadRuneKeepsPosition(st) ==
    LET ur == UnreadRune(st)
    IN [st |-> ur.st, err |-> ur.err]

\* Reader.unreadRune
unreadRune(st) ==
    LET ur == UnreadRune(st)
    IN [st |-> step(ur.st, -1).st, err |-> ur.err]

\* ----------------------------------------------------------- transformers
Result(st, c, err) == [st |-> st, c |-> c, err |-> err]

\* normalizeNewline that pushes back after a carriage return at the end of
\* the stream too.
normalizeNewlineUnreadsAtEnd(st, c) ==
    IF c.Rune = LF
    THEN Result(newline(st), c, Nil)
    ELSE IF c.Rune = CR
    THEN LET c1 == [c EXCEPT !.Rune = LF]
             rr == readRune(newline(st))
         IN IF rr.err # Nil /\ ~IsEOF(rr.err)
            THEN Result(rr.st, c1,
                        NewPositionalError(rr.pos, "error reading rune from source", <<>>))
            ELSE IF rr.err = Nil /\ rr.ru = LF
            THEN Result(step(rr.st, -1).st, c1, Nil)
            ELSE Result(unreadRune(rr.st).st, c1, Nil)
    ELSE Result(st, c, Nil)

\* normalizeNewline that keeps the column a line feed after a carriage return
\* has moved.
normalizeNewlineKeepsColumn(st, c) ==
    IF c.Rune = LF
    THEN Result(newline(st), c, Nil)
    ELSE IF c.Rune = CR
    THEN LET c1 == [c EXCEPT !.Rune = LF]
             rr == readRune(newline(st))
         IN IF IsEOF(rr.err)
            THEN Result(rr.st, c1, Nil)
            ELSE IF rr.err # Nil
            THEN Result(rr.st, c1,
                        NewPositionalError(rr.pos, "error reading rune from source", <<>>))
            ELSE IF rr.ru = LF
            THEN Result(rr.st, c1, Nil)
            ELSE Result(unreadRune(rr.st).st, c1, Nil)
    ELSE Result(st, c, Nil)

\* normalizeNewline.Transform
normalizeNewline(st, c) ==
    IF c.Rune = LF
    THEN Result(newline(st), c, Nil)
    ELSE IF c.Rune = CR
    THEN LET c1 == [c EXCEPT !.Rune = LF]
             rr == readRune(newline(st))
         IN IF IsEOF(rr.err)
            THEN Result(rr.st, c1, Nil)
            ELSE IF rr.err # Nil
            THEN Result(rr.st, c1,
                        NewPositionalError(rr.pos, "error reading rune from source", <<>>))
            ELSE IF rr.ru = LF
            THEN Result(step(rr.st, -1).st, c1, Nil)
            ELSE LET ur == unreadRune(rr.st)
                 IN IF ur.err # Nil
                    THEN Result(ur.st, c1,
                                NewPositionalError(rr.pos, "error unreading rune from source", <<>>))
                    ELSE Result(ur.st, c1, Nil)
    ELSE Result(st, c, Nil)

\* The value of a hexadecimal digit, -1 for any other rune (strconv's unhex).
unhex(ru) ==
    IF ru \in 48..57 THEN ru - 48
    ELSE IF ru \in 97..102 THEN ru - 97 + 10
    ELSE IF ru \in 65..70 THEN ru - 65 + 10
    ELSE -1

\* utf8.ValidRune: not a surrogate half, not above MaxRune.
ValidRune(v) == (v >= 0 /\ v < 55296) \/ (v > 57343 /\ v <= 1114111)

\* Unquote that reads a rune that is no hexadecimal digit as the digit zero.
UnquoteLenient(lit) ==
    LET h == [i \in 1..4 |-> IF unhex(lit[i]) < 0 THEN 0 ELSE unhex(lit[i])]
        v == ((h[1] * 16 + h[2]) * 16 + h[3]) * 16 + h[4]
    IN IF ~ValidRune(v)
       THEN [ok |-> FALSE, ru |-> 0]
       ELSE [ok |-> TRUE, ru |-> v]

\* strconv.Unquote of the quoted literal '\uXXXX' built from the four runes of
\* lit: the code point, or a syntax error when a rune is no hexadecimal digit
\* or the value is no valid rune.
Unquote(lit) ==
    LET h == [i \in 1..4 |-> unhex(lit[i])]
        v == ((h[1] * 16 + h[2]) * 16 + h[3]) * 16 + h[4]
    IN IF \E i \in 1..4 : h[i] < 0
       THEN [ok |-> FALSE, ru |-> 0]
       ELSE IF ~ValidRune(v)
       THEN [ok |-> FALSE, ru |-> 0]
       ELSE [ok |-> TRUE, ru |-> v]

\* One pass of the digit loop of unicodeEscape.Transform: rr is what readRune
\* returned, acc.lit the runes written to the literal so far.
writeDigit(acc, rr) ==
    IF rr.err # Nil
    THEN [st |-> rr.st, lit |-> acc.lit, err |-> rr.err]
    ELSE [st |-> rr.st, lit |-> Append(acc.lit, rr.ru), err |-> Nil]

\* The digit loop of unicodeEscape.Transform with i passes to go: it stops at
\* the first failed read.
RECURSIVE readDigits(_, _)
readDigits(i, acc) ==
    IF i = 0 \/ acc.err # Nil
    THEN acc
    ELSE readDigits(i - 1, writeDigit(acc, readRune(acc.st)))

\* unicodeEscape.Transform
unicodeEscape(st, c) ==
    IF c.Rune # Backslash
    THEN Result(st, c, Nil)
    ELSE LET rr == readRune(st)
         IN IF IsEOF(rr.err)
            THEN Result(rr.st, c,
                        NewPositionalError(rr.pos, "unexpected EOF reading unicode escape", <<>>))
            ELSE IF rr.err # Nil
            THEN Result(rr.st, c,
                        NewPositionalError(rr.pos, "error reading rune from source", <<>>))
            ELSE IF rr.ru # LowerU
            THEN LET ur == unreadRune(rr.st)
                 IN IF ur.err # Nil
                    THEN Result(ur.st, c,
                                NewPositionalError(rr.pos, "error unreading rune from source", <<>>))
                    ELSE Result(ur.st, c, Nil)
            ELSE LET rd == readDigits(4, [st |-> rr.st, lit |-> <<>>, err |-> Nil])
                     uq == Unquote(rd.lit)
                 IN IF IsEOF(rd.err)
                    THEN Result(rd.st, c,
                                NewPositionalError(c.Pos, "unexpected EOF reading unicode escape", <<>>))
                    ELSE IF rd.err # Nil
                    THEN Result(rd.st, c,
                                NewPositionalError(c.Pos, "error reading rune from source", <<>>))
                    ELSE IF ~uq.ok
                    THEN Result(rd.st, c,
                                NewPositionalError(c.Pos,
                                    "error parsing unicode escaped rune: invalid syntax", rd.lit))
                    ELSE Result(rd.st, [c EXCEPT !.Rune = uq.ru], Nil)

\* runeEscape that returns an error for a rune the mapping does not hold.
runeEscapeStrict(st, c) ==
    IF c.Rune # Backslash
    THEN Result(st, c, Nil)
    ELSE LET rr == readRune(st)
         IN IF IsEOF(rr.err)
            THEN Result(rr.st, c,
                        NewPositionalError(c.Pos, "unexpected EOF reading rune escape", <<>>))
            ELSE IF rr.err # Nil
            THEN Result(rr.st, c,
                        NewPositionalError(c.Pos, "error reading rune from source", <<>>))
            ELSE IF rr.ru \notin DOMAIN escapes
            THEN Result(rr.st, c, NewPositionalError(c.Pos, "unknown rune escape", <<rr.ru>>))
            ELSE Result(rr.st, [c EXCEPT !.Rune = escapes[rr.ru], !.Escaped = TRUE], Nil)

\* runeEscape.Transform
runeEscape(st, c) ==
    IF c.Rune # Backslash
    THEN Result(st, c, Nil)
    ELSE LET rr == readRune(st)
         IN IF IsEOF(rr.err)
            THEN Result(rr.st, c,
                        NewPositionalError(c.Pos, "unexpected EOF reading rune escape", <<>>))
            ELSE IF rr.err # Nil
            THEN Result(rr.st, c,
                        NewPositionalError(c.Pos, "error reading rune from source", <<>>))
            ELSE Result(rr.st,
                        [c EXCEPT !.Rune = IF rr.ru \in DOMAIN escapes
                                           THEN escapes[rr.ru] ELSE rr.ru,
                                  !.Escaped = TRUE],
                        Nil)

\* transformer.Transform, dispatched on the installed transformer.
Transform(t, st, c) ==
    IF t = "normalizeNewline" THEN normalizeNewline(Event(st, "transform"), c)
    ELSE IF t = "unicodeEscape" THEN unicodeEscape(Event(st, "transform"), c)
    ELSE runeEscape(Event(st, "transform"), c)

\* The transformer loop of bufferChar over the transformers ts still to run,
\* tr being the Char and error so far: it stops at the first error.
RECURSIVE applyTransformers(_, _)
applyTransformers(ts, tr) ==
    IF ts = <<>> \/ tr.err # Nil
    THEN tr
    ELSE applyTransformers(Tail(ts), Transform(Head(ts), tr.st, tr.c))

\* ------------------------------------------------------ lookahead buffer
\* gobuffer.Buffer[Char], by its contract: elems are the retained elements,
\* base counts the elements discarded by Commit, read counts the elements
\* consumed (the read cursor).  Elements live in rows of RowSize; Commit drops
\* the rows before the row the read cursor is in.
NewBuffer == [elems |-> <<>>, base |-> 0, read |-> 0]

BufWrite(b, c) == [b EXCEPT !.elems = Append(@, c)]

Buffered(b) == b.base + Len(b.elems) - b.read

BufNext(b) ==
    IF Buffered(b) > 0
    THEN [c |-> b.elems[b.read - b.base + 1], ok |-> TRUE]
    ELSE [c |-> ZeroChar, ok |-> FALSE]

BufConsume(b) == [b EXCEPT !.read = @ + 1]

\* gobuffer.State: the zero value is never returned by BufState.
ZeroState == [set |-> FALSE, idx |-> 0]

BufState(b) == [set |-> TRUE, idx |-> b.read]

BufRollback(b, s) ==
    IF ~s.set THEN [b |-> b, err |-> ZeroStateError]
    ELSE IF s.idx < b.base THEN [b |-> b, err |-> IllegalStateError]
    ELSE [b |-> [b EXCEPT !.read = s.idx], err |-> Nil]

BufCommit(b) ==
    LET keep == (b.read \div RowSize) * RowSize
    IN [b EXCEPT !.elems = SubSeq(@, keep - b.base + 1, Len(@)), !.base = keep]

\* ----------------------------------------------------------------- Reader
\* The end of bufferChar that writes the Char to the buffer whether or not a
\* transformer failed.
bufferTransformedKeepsChar(b, tr) ==
    [st |-> tr.st, b |-> BufWrite(b, tr.c), top |-> tr.err = Nil, err |-> tr.err]

\* The end of bufferChar: tr is what the transformer loop returned.  top
\* tells an outcome of bufferChar's own read from one raised by a transformer.
bufferTransformed(b, tr) ==
    IF tr.err # Nil
    THEN [st |-> tr.st, b |-> b, top |-> FALSE, err |-> tr.err]
    ELSE [st |-> tr.st, b |-> BufWrite(b, tr.c), top |-> TRUE, err |-> Nil]

\* bufferChar after its read: rr is what readRune returned.
bufferRead(b, rr) ==
    IF rr.err # Nil
    THEN [st |-> rr.st, b |-> b, top |-> TRUE,
          err |-> IF IsEOF(rr.err) THEN rr.err
                  ELSE NewPositionalError(rr.pos, "error reading rune from source", <<>>)]
    ELSE bufferTransformed(b, applyTransformers(transformers,
                                                Result(rr.st, NewChar(rr.ru, rr.pos), Nil)))

\* bufferChar that returns early on read errors other than io.EOF only: at
\* the end of the stream it buffers the zero rune and then returns io.EOF.
bufferCharFallsThrough(st, b) ==
    LET rr == readRune(st)
    IN IF rr.err # Nil /\ ~IsEOF(rr.err)
       THEN [st |-> rr.st, b |-> b, top |-> TRUE,
             err |-> NewPositionalError(rr.pos, "error reading rune from source", <<>>)]
       ELSE [bufferTransformed(b, applyTransformers(transformers,
                                                    Result(rr.st, NewChar(rr.ru, rr.pos), Nil)))
             EXCEPT !.err = IF @ = Nil THEN rr.err ELSE @]

\* Reader.bufferChar: one raw rune through the transformers into the buffer.
bufferChar(st, b) == bufferRead(b, readRune(st))

\* The end of Next: bc is what bufferChar returned, or the reader as it was
\* when an element was pending.
nextFront(bc) ==
    LET nx == BufNext(bc.b)
    IN IF bc.err # Nil
       THEN [st |-> bc.st, b |-> bc.b, c |-> ZeroChar, err |-> bc.err, top |-> bc.top]
       ELSE [st |-> bc.st, b |-> bc.b, c |-> nx.c, top |-> TRUE,
             err |-> IF nx.ok THEN Nil ELSE EmptyBufferError]

\* Next that keeps one element of lookahead: it pulls the following
\* character already while the last buffered element is pending.
NextPullsAhead(st, b) ==
    nextFront(IF Buffered(b) <= 1 THEN bufferChar(st, b)
              ELSE [st |-> st, b |-> b, top |-> TRUE, err |-> Nil])

\* Next without the test for a pending element: every call pulls from the source.
NextAlwaysPulls(st, b) == nextFront(bufferChar(st, b))

\* Reader.Next
Next(st, b) ==
    nextFront(IF Buffered(b) = 0 THEN bufferChar(st, b)
              ELSE [st |-> st, b |-> b, top |-> TRUE, err |-> Nil])

\* Consume that leaves the read cursor where it is.
ConsumeNothing(b) == b

\* Reader.Consume
Consume(b) == BufConsume(b)

\* Reader.State
State(b) == [bufState |-> BufState(b)]

\* The zero value State{}.
ZeroReaderState == [bufState |-> ZeroState]

\* Rollback that reports success without moving the read cursor.
RollbackNoRestore(b, state) ==
    [b |-> b, err |-> BufRollback(b, state.bufState).err]

\* Rollback that takes a zero State for the current one.
RollbackZeroIsCurrent(b, state) ==
    BufRollback(b, IF state.bufState.set THEN state.bufState ELSE BufState(b))

\* Rollback that drops the buffer's error.
RollbackDropsError(b, state) ==
    [b |-> BufRollback(b, state.bufState).b, err |-> Nil]

\* Reader.Rollback
Rollback(b, state) == BufRollback(b, state.bufState)

\* Commit that drops every consumed element, those of the read cursor's row
\* too.
CommitDropsConsumed(b) ==
    [b EXCEPT !.elems = SubSeq(@, b.read - b.base + 1, Len(@)), !.base = b.read]

\* Reader.Commit
Commit(b) == BufCommit(b)

\* ------------------------------------------------------------ bookkeeping
\* An outcome of Next: c, err, and top as in bufferChar.
NoOutcome == [c |-> ZeroChar, err |-> Nil, top |-> FALSE]

\* A call: op, what it returned (c, err), its source and position events
\* (ev), the read cursor it started at (cur), the State it was given (arg);
\* for Next also the index of the next raw rune and Reader.pos when it was
\* called (from, at), top as in bufferChar, the outcome of the call right
\* before it when that was a Next too (prior), whether Next last ran at this
\* cursor before a Rollback that has succeeded since (replay) and what it
\* returned then (before); for Rollback whether the call right before it was
\* a Commit (follows).
Call(op, c, err, ev, cur, arg, from, at, prior, replay, before, top) ==
    [op |-> op, c |-> c, err |-> err, ev |-> ev, cur |-> cur, arg |-> arg,
     from |-> from, at |-> at,
     prior |-> prior, replay |-> replay, before |-> before, top |-> top,
     follows |-> "none"]

Plain(op, c, err, cur, arg) ==
    Call(op, c, err, <<>>, cur, arg, 0, ZeroPosition, NoOutcome, FALSE, NoOutcome, TRUE)

NoCall == Plain("none", ZeroChar, Nil, 0, ZeroReaderState)

Thread == [r |-> reader.r, lastRuneSize |-> reader.lastRuneSize, pos |-> pos, ev |-> <<>>]

\* --------------------------------------------------------------- actions
InitWith(sources, ends, configs, maps) ==
    /\ src \in sources
    /\ srcEnd \in ends
    /\ transformers \in configs
    /\ escapes \in maps
    /\ reader = [r |-> 0, lastRuneSize |-> -1]
    /\ pos = startPosition
    /\ buffer = NewBuffer
    /\ saved = ZeroReaderState
    /\ savedAt = -1
    /\ last = NoCall
    /\ produced = <<>>
    /\ delivered = <<>>
    /\ hist = [k \in 0..Len(src) |-> NoOutcome]
    /\ stale = {}
    /\ rolledBack = FALSE
    /\ discarded = 0

\* The lowest read cursor the reader can still return to: that of the held
\* State while a Rollback to it can succeed, else the current one.
Floor(b, state) ==
    IF state.bufState.set /\ state.bufState.idx >= b.base /\ state.bufState.idx < b.read
    THEN state.bufState.idx
    ELSE b.read

\* hist and stale without the cursors below Floor.
KeptHist(h, b, state) == [k \in DOMAIN h |-> IF k < Floor(b, state) THEN NoOutcome ELSE h[k]]

KeptStale(st, b, state) == {k \in st : k >= Floor(b, state)}

\* A call of Next that returned res.
NextReturns(res) ==
    /\ reader' = [r |-> res.st.r, lastRuneSize |-> res.st.lastRuneSize]
    /\ pos' = res.st.pos
    /\ buffer' = res.b
    /\ last' = Call("Next", res.c, res.err, res.st.ev, buffer.read, ZeroReaderState,
                    reader.r + 1, pos,
                    IF last.op = "Next"
                    THEN [c |-> last.c, err |-> last.err, top |-> last.top]
                    ELSE NoOutcome,
                    buffer.read \in stale,
                    IF buffer.read \in stale THEN hist[buffer.read] ELSE NoOutcome,
                    res.top)
    /\ produced' = IF Len(res.b.elems) > Len(buffer.elems)
                   THEN Append(produced, [c |-> res.c, from |-> reader.r + 1,
                                          to |-> res.st.r, start |-> pos,
                                          after |-> res.st.pos])
                   ELSE produced
    /\ hist' = IF saved.bufState.set
               THEN [hist EXCEPT ![buffer.read] =
                         [c |-> res.c, err |-> res.err, top |-> res.top]]
               ELSE hist
    /\ stale' = stale \ {buffer.read}
    /\ UNCHANGED <<config, saved, savedAt, delivered, rolledBack, discarded>>

NextOp == NextReturns(Next(Thread, buffer))

\* The caller consumes the element Next returns: Consume is called with an
\* element pending.
ConsumeOp ==
    /\ Buffered(buffer) > 0
    /\ buffer' = Consume(buffer)
    /\ last' = Plain("Consume", BufNext(buffer).c, Nil, buffer.read, ZeroReaderState)
    /\ delivered' = IF rolledBack THEN delivered ELSE Append(delivered, BufNext(buffer).c)
    /\ hist' = KeptHist(hist, buffer', saved)
    /\ stale' = KeptStale(stale, buffer', saved)
    /\ UNCHANGED <<config, reader, pos, saved, savedAt, produced, rolledBack,
                   discarded>>

StateOp ==
    /\ saved' = State(buffer)
    /\ last' = Plain("State", ZeroChar, Nil, buffer.read, State(buffer))
    /\ savedAt' = buffer.read
    /\ hist' = [k \in DOMAIN hist |-> NoOutcome]
    /\ stale' = {}
    /\ UNCHANGED <<config, reader, pos, buffer, produced, delivered, rolledBack, discarded>>

\* A call of Rollback with state that returned res.
RollbackReturns(state, res) ==
    /\ buffer' = res.b
    /\ last' = [Plain("Rollback", ZeroChar, res.err, buffer.read, state)
                    EXCEPT !.follows = IF last.op = "Commit" THEN "Commit" ELSE "none"]
    /\ stale' = IF res.err = Nil
                THEN {k \in DOMAIN hist : k >= res.b.read /\ hist[k] # NoOutcome}
                ELSE stale
    /\ rolledBack' = (rolledBack \/ res.err = Nil)
    /\ delivered' = IF res.err = Nil THEN <<>> ELSE delivered
    /\ UNCHANGED <<config, reader, pos, saved, savedAt, produced, hist, discarded>>

\* Rollback to the held State, or to the zero State.
RollbackOp ==
    \E state \in {saved, ZeroReaderState} : RollbackReturns(state, Rollback(buffer, state))

CommitOp ==
    /\ buffer' = Commit(buffer)
    /\ last' = Plain("Commit", ZeroChar, Nil, buffer.read, ZeroReaderState)
    /\ discarded' = discarded + (Len(buffer.elems) - Len(buffer'.elems))
    /\ hist' = KeptHist(hist, buffer', saved)
    /\ stale' = KeptStale(stale, buffer', saved)
    /\ UNCHANGED <<config, reader, pos, saved, savedAt, produced, delivered,
                   rolledBack>>

\* -------------------------------------------------------- specifications
\* The mapping of the tests: 'a' to 'x', 'b' to 'y'.
EscapesAB == (RuneA :> LowerX) @@ (RuneB :> LowerY)

NoEscapes == [ru \in {} |-> 0]

Transformers == {"normalizeNewline", "unicodeEscape", "runeEscape"}

\* Every ordered list of distinct transformers, the empty list included.
Configs ==
    {<<>>} \cup {<<t>> : t \in Transformers}
           \cup {<<t, u>> : t \in Transformers, u \in Transformers}
           \cup {<<t, u, v>> : t \in Transformers, u \in Transformers, v \in Transformers}

DistinctConfigs == {ts \in Configs : Cardinality({ts[i] : i \in DOMAIN ts}) = Len(ts)}

SeqsUpTo(alphabet, n) == UNION {[1..k -> alphabet] : k \in 0..n}

Step == NextOp \/ ConsumeOp \/ StateOp \/ RollbackOp \/ CommitOp

\* Any source of up to MaxLen runes, either ending, any transformer list.
Init ==
    InitWith(SeqsUpTo({RuneA, Backslash}, MaxLen), {EOF, SourceError},
             DistinctConfigs, {EscapesAB})

Spec == Init /\ [][Step]_vars

\* A caller that only reads: Next and Consume.
StepRead == NextOp \/ ConsumeOp

Containing(t) == {ts \in DistinctConfigs : \E i \in DOMAIN ts : ts[i] = t}

\* Sources of letters, line feeds and carriage returns, read with the newline
\* normalizer installed.
InitNewline ==
    InitWith(SeqsUpTo({RuneA, LF, CR}, MaxLine), {EOF, SourceError},
             Containing("normalizeNewline"), {EscapesAB})

SpecNewline == InitNewline /\ [][StepRead]_vars

\* The runes after the 'u': the digits '0', '5', '8', the digit 'D' in either
\* case (68, 100: with '8' it writes code points from D800 on) and 'X', no digit.
EscapeRunes == {Digit0, Digit5, Digit8, RuneX} \cup {68, 100}

\* Sources holding one backslash-u-and-four-runes sequence, with up to MaxPad
\* runes before and after it, read with only the unicode escape installed.
UnicodeSources ==
    {pre \o <<Backslash, LowerU>> \o lit \o post :
        pre \in SeqsUpTo({RuneA, Backslash}, MaxPad),
        lit \in [1..4 -> EscapeRunes],
        post \in SeqsUpTo({RuneA, Backslash}, MaxPad)}

InitUnicode == InitWith(UnicodeSources, {EOF, SourceError}, {<<"unicodeEscape">>}, {EscapesAB})

SpecUnicode == InitUnicode /\ [][StepRead]_vars

\* Sources of mapped and unmapped runes and backslashes, read with only the
\* rune escape installed, with and without a mapping.
InitRune ==
    InitWith(SeqsUpTo({RuneA, RuneX, Backslash, LowerU, LF}, MaxEsc), {EOF, SourceError},
             {<<"runeEscape">>}, {EscapesAB, NoEscapes})

SpecRune == InitRune /\ [][StepRead]_vars

\* The four runes of the escapes of 'X', of the backslash (005C) and of the
\* line feed (000A), and of the tests' malformed 005X.
EscapeLiterals ==
    {<<Digit0, Digit0, Digit5, Digit8>>, <<Digit0, Digit0, Digit5, 67>>,
     <<Digit0, Digit0, Digit0, 65>>, <<Digit0, Digit0, Digit5, RuneX>>}

\* Free-form sources of letters, backslashes, 'u', '0' and both newline runes,
\* and sources holding one unicode escape.
PipelineSources ==
    SeqsUpTo({RuneA, Backslash, LowerU, Digit0, LF, CR}, MaxMix)
        \cup {pre \o <<Backslash, LowerU>> \o lit \o post :
                  pre \in SeqsUpTo({RuneA, Backslash}, MaxPad),
                  lit \in EscapeLiterals,
                  post \in SeqsUpTo({RuneA, Backslash}, MaxPad)}

\* Any of these sources read with any ordered list of distinct transformers.
InitPipeline == InitWith(PipelineSources, {EOF, SourceError}, DistinctConfigs, {EscapesAB})

SpecPipeline == InitPipeline /\ [][StepRead]_vars

\* ----------------------------------------------------------------- claims
Chars(log) == [i \in DOMAIN log |-> log[i].c]

IsPrefix(s, t) == Len(s) <= Len(t) /\ \A i \in DOMAIN s : s[i] = t[i]

\* The transformed stream: the Chars got by pulling one logical character
\* after another from the start of the source, up to the end of the stream or
\* the source's read error.
Pulled(acc, bc) ==
    [st |-> bc.st,
     out |-> IF bc.err = Nil THEN Append(acc.out, bc.b.elems[1]) ELSE acc.out,
     done |-> bc.err # Nil /\ bc.top]

RECURSIVE StreamFrom(_)
StreamFrom(acc) ==
    IF acc.done THEN acc.out
    ELSE StreamFrom(Pulled(acc, bufferChar(acc.st, NewBuffer)))

TransformedStream ==
    StreamFrom([st |-> [r |-> 0, lastRuneSize |-> -1, pos |-> startPosition, ev |-> <<>>],
                out |-> <<>>, done |-> FALSE])

\* C1  Peek idempotence: a Next called right after a Next that returned a Char
\* returns the identical Char (rune, position, escaped flag) and touches
\* neither the source nor the position.
C1_PeekIdempotence ==
    (last.op = "Next" /\ last.prior # NoOutcome /\ last.prior.err = Nil)
        => /\ last.err = Nil
           /\ last.c = last.prior.c
           /\ last.ev = <<>>

C1_Witness ==
    /\ last.op = "Next" /\ last.prior # NoOutcome /\ last.prior.err = Nil
    /\ last.c = last.prior.c
    /\ last.c.Escaped
    /\ Len(produced) = 2

\* C2  Next/Consume ordering: while no Rollback has succeeded, the Chars
\* consumed are the first Chars of the transformed stream, in order, each
\* once; at most one produced Char is pending; a Next returns the Char after
\* the consumed ones, or end-of-stream only when the stream has no further
\* Char; the Chars are produced from successive stretches of the raw source.
C2_NextConsumeOrder ==
    ~rolledBack =>
        /\ delivered = SubSeq(Chars(produced), 1, Len(delivered))
        /\ Len(produced) <= Len(delivered) + 1
        /\ IsPrefix(Chars(produced), TransformedStream)
        /\ \A i \in 1..Len(produced) - 1 : produced[i].to < produced[i + 1].from
        /\ (last.op = "Next" /\ last.err = Nil)
               => /\ Len(produced) = Len(delivered) + 1
                  /\ last.c = TransformedStream[Len(delivered) + 1]
        /\ (last.op = "Next" /\ IsEOF(last.err)) => delivered = TransformedStream
        /\ transformers = <<>> =>
               \A k \in DOMAIN produced :
                   produced[k].c = NewChar(src[k], [Row |-> 1, Col |-> k])

C2_Witness ==
    /\ ~rolledBack
    /\ Len(delivered) = 2
    /\ last.op = "Next" /\ last.err = Nil
    /\ last.c = produced[3].c
    /\ transformers # <<>>

C5_ZeroStateRejected ==
    (last.op = "Rollback" /\ last.arg = ZeroReaderState)
        => (last.err = ZeroStateError /\ buffer.read = last.cur)

C5_Witness ==
    /\ last.op = "Rollback" /\ last.arg = ZeroReaderState
    /\ last.err = ZeroStateError
    /\ discarded > 0
    /\ saved # ZeroReaderState

\* C6  Commit invalidation: Rollback to a State taken at a read cursor whose
\* element a Commit has dropped returns the illegal-state error and leaves
\* the read cursor alone.
C6_CommitInvalidates ==
    (last.op = "Rollback" /\ last.arg # ZeroReaderState /\ savedAt < discarded)
        => (last.err = IllegalStateError /\ buffer.read = last.cur)

C6_Witness ==
    /\ last.op = "Rollback" /\ last.arg # ZeroReaderState /\ savedAt < discarded
    /\ last.err = IllegalStateError
    /\ buffer.read > savedAt

\* Whether the latest call was a Next that found the buffer empty and pulled
\* from the source, starting with the raw rune at index last.from.
Pulling == last.op = "Next" /\ last.ev # <<>>

\* The raw runes i..j of the source.
Raw(i, j) == SubSeq(src, i, j)

\* A newline sequence starts at raw rune i: a carriage return, or a line feed
\* that does not follow one.
NLStart(i) == src[i] = CR \/ (src[i] = LF /\ (i = 1 \/ src[i - 1] # CR))

\* The raw runes of the newline sequence starting at i: two for CR+LF.
NLLen(i) == IF src[i] = CR /\ i < Len(src) /\ src[i + 1] = LF THEN 2 ELSE 1

\* The row of raw rune i: one more than the newline sequences started before it.
RowOf(i) == 1 + Cardinality({j \in 1..i - 1 : NLStart(j)})

\* The last raw rune of the latest newline sequence started before i (0: none).
LineBreak(i) ==
    IF \E j \in 1..i - 1 : NLStart(j)
    THEN LET j == CHOOSE k \in 1..i - 1 : NLStart(k) /\ \A m \in k + 1..i - 1 : ~NLStart(m)
         IN j + NLLen(j) - 1
    ELSE 0

\* The column of raw rune i.
ColOf(i) == i - LineBreak(i)

\* C7  Newline normalization: with the newline normalizer installed and a
\* source of letters, LF and CR, every produced Char starts where the previous
\* one ended and sits at the row and column of its first raw rune; each of LF,
\* CR not followed by LF, and CR+LF gives one Char with rune LF and
\* escaped=false, uses up the whole sequence, and leaves the position at
\* (row+1, 1), where the next Char is; a source that ends with the end of the
\* stream returns no error but that, and only after every raw rune (a last CR
\* included) has been turned into a Char.
C7_NewlineNormalization ==
    /\ \A k \in DOMAIN produced :
           LET e == produced[k]
               i == e.from
               at == [Row |-> RowOf(i), Col |-> ColOf(i)]
           IN /\ i = IF k = 1 THEN 1 ELSE produced[k - 1].to + 1
              /\ e.c.Pos = at
              /\ ~e.c.Escaped
              /\ src[i] \in {LF, CR}
                     => /\ NLStart(i)
                        /\ e.c.Rune = LF
                        /\ e.to = i + NLLen(i) - 1
                        /\ e.after = [Row |-> at.Row + 1, Col |-> 1]
                        /\ k + 1 \in DOMAIN produced
                               => produced[k + 1].c.Pos = [Row |-> at.Row + 1, Col |-> 1]
              /\ src[i] \notin {LF, CR}
                     => /\ e.c.Rune = src[i]
                        /\ e.to = i
                        /\ e.after = [Row |-> at.Row, Col |-> at.Col + 1]
    /\ srcEnd = EOF => last.err \in {Nil, EOF}
    /\ (last.op = "Next" /\ IsEOF(last.err))
           => IF produced = <<>> THEN src = <<>> ELSE produced[Len(produced)].to = Len(src)

C7_Witness ==
    /\ src = <<CR, LF, RuneA, CR>>
    /\ last.op = "Next" /\ IsEOF(last.err)
    /\ Chars(produced) = <<[Rune |-> LF, Pos |-> [Row |-> 1, Col |-> 1], Escaped |-> FALSE],
                           [Rune |-> RuneA, Pos |-> [Row |-> 2, Col |-> 1], Escaped |-> FALSE],
                           [Rune |-> LF, Pos |-> [Row |-> 2, Col |-> 2], Escaped |-> FALSE]>>
    /\ pos = [Row |-> 3, Col |-> 1]

\* A hexadecimal digit, either case, and its value.
IsHexDigit(ru) == ru \in (48..57) \cup (65..70) \cup (97..102)

DigitValue(ru) == IF ru <= 57 THEN ru - 48 ELSE IF ru <= 70 THEN ru - 55 ELSE ru - 87

\* The code point four hexadecimal digits write.
CodePoint(d) ==
    4096 * DigitValue(d[1]) + 256 * DigitValue(d[2]) + 16 * DigitValue(d[3]) + DigitValue(d[4])

\* The latest Next pulled at a backslash, a 'u' and four further raw runes.
AtUnicodeEscape ==
    /\ Pulling
    /\ last.from + 5 <= Len(src)
    /\ src[last.from] = Backslash
    /\ src[last.from + 1] = LowerU

\* What C8 says a Next at a unicode escape of four hexadecimal digits does.
Collapsed ==
    /\ last.err = Nil
    /\ last.c = [Rune |-> CodePoint(Raw(last.from + 2, last.from + 5)),
                 Pos |-> [Row |-> 1, Col |-> last.from], Escaped |-> FALSE]
    /\ produced[Len(produced)] =
           [c |-> last.c, from |-> last.from, to |-> last.from + 5,
            start |-> [Row |-> 1, Col |-> last.from],
            after |-> [Row |-> 1, Col |-> last.from + 6]]
    /\ reader.r = last.from + 5
    /\ pos = [Row |-> 1, Col |-> last.from + 6]

\* C8  Unicode escape collapse, as claimed: with only the unicode escape
\* installed, a Next that pulls a backslash, a 'u' and four hexadecimal digits
\* returns one Char with the decoded code point, the position of the
\* backslash and escaped=false, and leaves the position six columns on.
C8_UnicodeEscapeCollapse ==
    (AtUnicodeEscape /\ \A j \in 2..5 : IsHexDigit(src[last.from + j])) => Collapsed

\* C8 for the digits that write no surrogate half (D800 to DFFF): the code
\* does as claimed there.
C8_CollapseOutsideSurrogates ==
    (/\ AtUnicodeEscape
     /\ \A j \in 2..5 : IsHexDigit(src[last.from + j])
     /\ CodePoint(Raw(last.from + 2, last.from + 5)) \notin 55296..57343) => Collapsed

C8_Witness ==
    /\ AtUnicodeEscape
    /\ Raw(last.from + 2, last.from + 5) = <<Digit0, Digit0, Digit5, Digit8>>
    /\ last.from = 2
    /\ last.c.Rune = RuneX
    /\ pos = [Row |-> 1, Col |-> 8]

C10_MalformedUnicodeEscape ==
    (AtUnicodeEscape /\ \E j \in 2..5 : ~IsHexDigit(src[last.from + j]))
        => /\ last.err = NewPositionalError([Row |-> 1, Col |-> last.from],
                             "error parsing unicode escaped rune: invalid syntax",
                             Raw(last.from + 2, last.from + 5))
           /\ last.c = ZeroChar
           /\ Buffered(buffer) = 0
           /\ \A k \in DOMAIN produced : produced[k].from # last.from

C10_Witness ==
    /\ AtUnicodeEscape
    /\ src = <<RuneA, Backslash, LowerU, Digit0, Digit0, Digit5, RuneX>>
    /\ last.err.kind = "positional"
    /\ last.err.pos = [Row |-> 1, Col |-> 2]
    /\ last.err.lit = <<Digit0, Digit0, Digit5, RuneX>>
    /\ produced # <<>>

\* The latest call was a Next whose own read of the next raw rune failed with
\* the source's read error.
TopReadFailed == last.op = "Next" /\ last.ev = <<"readfail">> /\ srcEnd = SourceError

ErrorStateError == MkErr("error-state", ZeroPosition, "error state", <<>>)

\* C12  Sticky error state, as claimed: a Next called right after a Next that
\* returned an error (the end of the stream included) returns the error-state
\* error and no Char.
C12_StickyErrorState ==
    (last.op = "Next" /\ last.prior.err # Nil)
        => (last.err = ErrorStateError /\ last.c = ZeroChar)

\* C12, what the code does instead: Next never returns an error-state error;
\* after a failed Next it pulls from the source again.
C12_NoErrorState ==
    /\ last.op = "Next" => last.err.kind \in {"nil", "EOF", "positional"}
    /\ (last.op = "Next" /\ last.prior.err # Nil) => last.ev # <<>>

C12_Witness ==
    /\ last.op = "Next"
    /\ last.prior.err.kind = "positional" /\ ~last.prior.top
    /\ IsEOF(last.err)
    /\ produced # <<>>

\* The transformer t is installed.
Installed(t) == \E i \in DOMAIN transformers : transformers[i] = t

\* What C13 says of the k-th produced Char when the Reader's own read got a
\* line feed for it: the position moves to the start of the next row, where
\* the Char produced next from the following raw rune is.
RowBumped(k) ==
    LET e == produced[k]
        below == [Row |-> e.c.Pos.Row + 1, Col |-> 1]
    IN /\ e.after = below
       /\ (k + 1 \in DOMAIN produced /\ produced[k + 1].from = e.to + 1)
              => produced[k + 1].c.Pos = below

\* C13  Row bump on newline, as claimed: under every transformer list, the
\* empty one included, a line feed read at (r, c) is followed by a Char at
\* (r+1, 1).
C13_RowBumpOnNewline ==
    \A k \in DOMAIN produced : src[produced[k].from] = LF => RowBumped(k)

\* C13 where the code does it: with the newline normalizer installed, at any
\* place in the list.
C13_RowBumpWithNormalizer ==
    Installed("normalizeNewline")
        => \A k \in DOMAIN produced : src[produced[k].from] = LF => RowBumped(k)

C13_Witness ==
    /\ transformers = <<"runeEscape", "normalizeNewline">>
    /\ src = <<RuneA, LF, RuneA>>
    /\ Len(produced) = 3
    /\ produced[2].c = NewChar(LF, [Row |-> 1, Col |-> 2])
    /\ produced[3].c = NewChar(RuneA, [Row |-> 2, Col |-> 1])

\* The rune escape's Char for the backslash at raw index i and the rune after it.
EscapedAt(i) ==
    [Rune |-> IF src[i + 1] \in DOMAIN escapes THEN escapes[src[i + 1]] ELSE src[i + 1],
     Pos |-> [Row |-> 1, Col |-> i], Escaped |-> TRUE]

\* The Char c, read by rr, goes through the transform whose result is tr with
\* nothing but its rune changed to ru, and the source and the position are
\* left at rest, the state the look-ahead read started from.
PassedOn(rr, tr, ru, rest) ==
    /\ tr.err = Nil
    /\ tr.c = NewChar(ru, rr.pos)
    /\ tr.st.r = rr.st.r
    /\ tr.st.pos = rest

\* The two transforms that push back, applied to the raw rune rr the Reader
\* reads next when a further raw rune follows it.
PushBackRestores(rr) ==
    /\ (rr.ru = Backslash /\ src[rr.st.r + 1] # LowerU)
           => PassedOn(rr, unicodeEscape(rr.st, NewChar(rr.ru, rr.pos)), Backslash, rr.st.pos)
    /\ (rr.ru = CR /\ src[rr.st.r + 1] # LF)
           => PassedOn(rr, normalizeNewline(rr.st, NewChar(rr.ru, rr.pos)), LF,
                       [Row |-> rr.st.pos.Row + 1, Col |-> 1])

\* C14  Push-back restores stream and position: in every reachable state of
\* the Reader, the unicode escape on a backslash not followed by 'u' and the
\* newline normalizer on a CR followed by a rune other than LF leave the source
\* index and the position as they were before the look-ahead read; so under
\* [unicode escape, rune escape] a backslash pair (not backslash-u) gives the
\* escaped Char rune escape alone gives, and under the unicode escape alone or
\* the normalizer alone the pushed-back rune is the start of the next Char, at
\* its own position.
C14_PushBackRestores ==
    /\ reader.r + 2 <= Len(src) => PushBackRestores(readRune(Thread))
    /\ \A k \in DOMAIN produced :
           LET e == produced[k]
               i == e.from
               follows == k + 1 \in DOMAIN produced /\ produced[k + 1].from = i + 1
           IN /\ (/\ transformers = <<"unicodeEscape", "runeEscape">>
                  /\ src[i] = Backslash /\ i + 1 <= Len(src) /\ src[i + 1] # LowerU)
                     => /\ e.c = EscapedAt(i)
                        /\ e.to = i + 1
                        /\ e.after = [Row |-> 1, Col |-> i + 2]
              /\ (/\ transformers = <<"unicodeEscape">>
                  /\ src[i] = Backslash /\ i + 1 <= Len(src) /\ src[i + 1] # LowerU)
                     => /\ e.c = NewChar(Backslash, [Row |-> 1, Col |-> i])
                        /\ e.to = i
                        /\ e.after = [Row |-> 1, Col |-> i + 1]
                        /\ follows => produced[k + 1].c.Pos = [Row |-> 1, Col |-> i + 1]
                        /\ (follows /\ src[i + 1] # Backslash)
                               => produced[k + 1].c.Rune = src[i + 1]
              /\ (/\ transformers = <<"normalizeNewline">>
                  /\ src[i] = CR /\ i + 1 <= Len(src) /\ src[i + 1] # LF)
                     => /\ e.c.Rune = LF
                        /\ e.to = i
                        /\ e.after = [Row |-> e.c.Pos.Row + 1, Col |-> 1]
                        /\ follows => produced[k + 1].c.Pos = e.after
                        /\ (follows /\ src[i + 1] # CR)
                               => produced[k + 1].c.Rune = src[i + 1]

C14_Witness ==
    /\ transformers = <<"unicodeEscape", "runeEscape">>
    /\ src = <<RuneA, Backslash, RuneA>>
    /\ Len(produced) = 2
    /\ produced[2].c = [Rune |-> LowerX, Pos |-> [Row |-> 1, Col |-> 2], Escaped |-> TRUE]
    /\ last.ev = <<"read", "transform", "read", "unread", "transform", "read">>

\* The latest Next pulled at a backslash and the escape it starts is cut
\* short by the end of the stream: nothing after the backslash (either escape
\* transform, installed alone), or a 'u' and fewer than four runes.
NothingAfterBackslash ==
    /\ Pulling /\ srcEnd = EOF
    /\ last.from = Len(src)
    /\ src[last.from] = Backslash
    /\ transformers \in {<<"runeEscape">>, <<"unicodeEscape">>}

FewerThanFourRunes ==
    /\ Pulling /\ srcEnd = EOF
    /\ last.from < Len(src) /\ Len(src) < last.from + 5
    /\ src[last.from] = Backslash /\ src[last.from + 1] = LowerU
    /\ transformers = <<"unicodeEscape">>

UnexpectedEOF(name, at) ==
    NewPositionalError(at, "unexpected EOF reading " \o name \o " escape", <<>>)

\* C15  Truncated-escape error position, as claimed: the error for an escape
\* cut short by the end of the stream is positioned at the backslash.
C15_TruncatedEscapePosition ==
    (NothingAfterBackslash \/ FewerThanFourRunes)
        => /\ last.err.kind = "positional"
           /\ last.err.pos = [Row |-> 1, Col |-> last.from]

\* C15 as the code has it: positioned at the backslash for the rune escape
\* and for the unicode escape cut short after the 'u'; one column after the
\* backslash for the unicode escape with nothing after the backslash.
C15_TruncatedEscapePositionInCode ==
    /\ (NothingAfterBackslash /\ transformers = <<"runeEscape">>)
           => last.err = UnexpectedEOF("rune", [Row |-> 1, Col |-> last.from])
    /\ FewerThanFourRunes
           => last.err = UnexpectedEOF("unicode", [Row |-> 1, Col |-> last.from])
    /\ (NothingAfterBackslash /\ transformers = <<"unicodeEscape">>)
           => last.err = UnexpectedEOF("unicode", [Row |-> 1, Col |-> last.from + 1])

C15_Witness ==
    /\ FewerThanFourRunes
    /\ src = <<RuneA, Backslash, LowerU>>
    /\ last.err.pos = [Row |-> 1, Col |-> 2]
    /\ Len(produced) = 1

\* The four runes after the backslash-u the latest Next pulled at.
EscapeDigits == Raw(last.from + 2, last.from + 5)

AllHex(d) == \A j \in DOMAIN d : IsHexDigit(d[j])

\* The surrogate halves, D800 to DFFF.
Surrogates == 55296..57343

\* C16  Unicode escape decoding is total on hex input, as claimed: for any
\* four hexadecimal digits, either case, a Next that pulls the escape returns
\* the Char with the code point they write, and no error.
C16_DecodingTotal ==
    (AtUnicodeEscape /\ AllHex(EscapeDigits))
        => (last.err = Nil /\ last.c.Rune = CodePoint(EscapeDigits))

\* C16 as the code has it: total outside the surrogate halves; for D800 to
\* DFFF the parse error of a malformed escape, quoting the digits.
C16_DecodingOutsideSurrogates ==
    (AtUnicodeEscape /\ AllHex(EscapeDigits))
        => IF CodePoint(EscapeDigits) \in Surrogates
           THEN /\ last.c = ZeroChar
                /\ last.err = NewPositionalError([Row |-> 1, Col |-> last.from],
                                  "error parsing unicode escaped rune: invalid syntax",
                                  EscapeDigits)
           ELSE /\ last.err = Nil
                /\ last.c.Rune = CodePoint(EscapeDigits)

C16_Witness ==
    /\ AtUnicodeEscape
    /\ EscapeDigits = <<100, Digit0, Digit5, Digit8>>
    /\ last.err = Nil
    /\ last.c.Rune = 53336

\* The rune the rune escape gives for the escaped raw rune ru.
Mapped(ru) == IF ru \in DOMAIN escapes THEN escapes[ru] ELSE ru

\* The produced entry e ends with a unicode escape of four hexadecimal digits
\* and carries the code point they write.
DecodedByUnicode(e) ==
    /\ Installed("unicodeEscape")
    /\ e.to - 5 >= e.from
    /\ src[e.to - 5] = Backslash /\ src[e.to - 4] = LowerU
    /\ AllHex(Raw(e.to - 3, e.to))
    /\ e.c.Rune = CodePoint(Raw(e.to - 3, e.to))

\* What C17 says of the produced entry e: escaped only as the rune escape
\* left it (a backslash and a further raw rune, the Char's rune being what
\* the mapping gives for that rune); not escaped when it comes from a single
\* raw rune or was decoded by the unicode escape.
EscapedFlagRight(e) ==
    /\ e.c.Escaped
           => /\ Installed("runeEscape")
              /\ e.to > e.from
              /\ e.c.Rune = Mapped(src[e.to])
    /\ e.to = e.from => ~e.c.Escaped
    /\ DecodedByUnicode(e) => ~e.c.Escaped

\* C17  Escaped-flag invariant, as claimed: under every ordered list of the
\* three transforms every produced Char has its escaped flag right.
C17_EscapedFlag == \A k \in DOMAIN produced : EscapedFlagRight(produced[k])

\* C17 where the code keeps it: when no transform runs after the rune escape
\* (it is last in the list, or not installed).
C17_EscapedFlagRuneEscapeLast ==
    (~Installed("runeEscape") \/ transformers[Len(transformers)] = "runeEscape")
        => \A k \in DOMAIN produced : EscapedFlagRight(produced[k])

C17_Witness ==
    /\ transformers = <<"normalizeNewline", "unicodeEscape", "runeEscape">>
    /\ src = <<Backslash, CR, RuneA>>
    /\ Chars(produced) = <<[Rune |-> CR, Pos |-> [Row |-> 1, Col |-> 1], Escaped |-> TRUE],
                           [Rune |-> RuneA, Pos |-> [Row |-> 1, Col |-> 3], Escaped |-> FALSE]>>

\* Position p comes before q in row-major order.
Before(p, q) == p.Row < q.Row \/ (p.Row = q.Row /\ p.Col < q.Col)

\* C18  Consume monotonicity: with Next and Consume only, the positions of
\* the consumed Chars, and of the pending one after them, strictly increase
\* in row-major order; where a Char made of one raw rune is followed on the
\* same row by the Char made from the very next raw rune, by one column.
C18_ConsumeMonotonicity ==
    /\ \A k \in 1..Len(delivered) - 1 : Before(delivered[k].Pos, delivered[k + 1].Pos)
    /\ \A k \in 1..Len(produced) - 1 :
           LET e == produced[k]
               f == produced[k + 1]
           IN /\ Before(e.c.Pos, f.c.Pos)
              /\ (f.c.Pos.Row = e.c.Pos.Row /\ e.to = e.from /\ f.from = e.to + 1)
                     => f.c.Pos.Col = e.c.Pos.Col + 1

C18_Witness ==
    /\ transformers = <<"normalizeNewline", "runeEscape">>
    /\ src = <<RuneA, LF, RuneA>>
    /\ Len(delivered) = 3
    /\ delivered[1].Pos = [Row |-> 1, Col |-> 1]
    /\ delivered[2].Pos = [Row |-> 1, Col |-> 2]
    /\ delivered[3].Pos = [Row |-> 2, Col |-> 1]

\* The latest call was a Next that pulled and got an error raised inside a
\* transform.
TransformFailed == Pulling /\ ~last.top /\ last.err # Nil

\* The last raw rune an escape starting at the backslash at index i reads
\* when it fails: the end of the source when that cuts it short, else the
\* fourth rune after the 'u'.
FailedEscapeEnd(i) ==
    IF transformers = <<"unicodeEscape">> /\ i + 5 <= Len(src) THEN i + 5 ELSE Len(src)

C20_PushBackDiscipline ==
    last.op = "Next"
        => \A i \in DOMAIN last.ev :
               last.ev[i] \in {"unread", "unreadfail"}
                   => /\ last.ev[i] = "unread"
                      /\ i > 1
                      /\ last.ev[i - 1] = "read"

C20_Witness ==
    /\ transformers = <<"normalizeNewline", "unicodeEscape">>
    /\ src = <<CR, Backslash, RuneA>>
    /\ last.op = "Next"
    /\ last.ev = <<"read", "transform", "transform", "read", "unread">>
    /\ reader = [r |-> 2, lastRuneSize |-> -1]
    /\ Chars(produced) = <<NewChar(LF, [Row |-> 1, Col |-> 1]),
                           NewChar(Backslash, [Row |-> 2, Col |-> 1])>>

\* A position of the document: rows and columns count from one.
InDocument(p) == p.Row >= 1 /\ p.Col >= 1

\* C21  Position invariant: under every transformer list the position
\* tracker, the position of every produced Char, the tracker before and
\* after each pull and the position of every positional error have row >= 1
\* and col >= 1, and no call of step, within a Next either, ends on column
\* zero or takes the branch that retreats a row and clamps the column to zero.
C21_PositionInvariant ==
    /\ InDocument(pos)
    /\ \A k \in DOMAIN produced :
           /\ InDocument(produced[k].c.Pos)
           /\ InDocument(produced[k].start)
           /\ InDocument(produced[k].after)
    /\ last.err.kind = "positional" => InDocument(last.err.pos)
    /\ \A i \in DOMAIN last.ev : last.ev[i] \notin {"clamp", "column0"}

C21_Witness ==
    /\ transformers = <<"unicodeEscape", "normalizeNewline">>
    /\ src = <<CR, LF, Backslash>>
    /\ srcEnd = SourceError
    /\ Len(produced) = 1
    /\ produced[1].after = [Row |-> 2, Col |-> 1]
    /\ last.err.kind = "positional" /\ last.err.pos = [Row |-> 2, Col |-> 2]
    /\ pos = [Row |-> 2, Col |-> 2]

\* A Rollback to the held State called right after a Commit.
RollbackAfterCommit ==
    last.op = "Rollback" /\ last.follows = "Commit" /\ last.arg.bufState.set

NoPullCall ==
    \/ last'.op \in {"Consume", "State", "Rollback", "Commit"}
    \/ last'.op = "Next" /\ Buffered(buffer) > 0

\* The step reads and pushes back no raw rune, runs no transformer, leaves
\* the source, the position tracker and the produced Chars as they were.
TouchesNothing ==
    /\ last'.ev = <<>>
    /\ reader' = reader
    /\ pos' = pos
    /\ produced' = produced

\* Replay and the pulls after it: the Chars ever written to the buffer are
\* the first Chars of the transformed stream, each once; a Next that returns
\* a Char returns the one of the stream at the read cursor, and without
\* touching the source where a Next before the Rollback had returned a Char.
ReplayThenPull ==
    /\ IsPrefix(Chars(produced), TransformedStream)
    /\ (last.op = "Next" /\ last.err = Nil)
           => /\ last.cur < Len(produced)
              /\ last.c = TransformedStream[last.cur + 1]
    /\ (last.op = "Next" /\ last.replay /\ last.before.err = Nil)
           => /\ last.err = Nil
              /\ last.ev = <<>>
              /\ last.c = last.before.c

\* C23  Only an empty-buffer Next touches the source: Consume, State,
\* Rollback, Commit and a Next called while an element is pending read and
\* push back no raw rune, run no transformer and leave the position tracker
\* alone; so after a Rollback the replayed Chars come from the buffer, and
\* the first Char pulled once the replay is exhausted is the Char of the
\* transformed stream that follows the last one produced before the
\* Rollback, at its position in that stream.
C23_OnlyEmptyNextPulls ==
    /\ [][NoPullCall => TouchesNothing]_vars
    /\ [](rolledBack => ReplayThenPull)

\* State at the start, a Char consumed, Rollback, the Char consumed again
\* from the buffer, and the Next after it pulls the escape that follows.
C23_Witness ==
    /\ transformers = <<"runeEscape">>
    /\ src = <<RuneA, Backslash, RuneA>>
    /\ rolledBack /\ savedAt = 0
    /\ stale = {0}
    /\ last.op = "Next" /\ last.cur = 1 /\ last.err = Nil
    /\ last.ev = <<"read", "transform", "read">>
    /\ Len(produced) = 2
    /\ last.c = [Rune |-> LowerX, Pos |-> [Row |-> 1, Col |-> 2], Escaped |-> TRUE]

====
